---- MODULE Spec2Model ----
(***************************************************************************)
(* Freshchat <-> OpenAI Assistant relay: conversation ownership,           *)
(* escalation and assistant-session lifecycle.                             *)
(*                                                                         *)
(* The main specification (Spec) models the v8 server with thread          *)
(* persistence: the webhook handler, processMessage, getAssistantResponse, *)
(* escalateToHuman, returnToBot, sendFreshchatMessage, the reset endpoint  *)
(* and the stale-thread cleanup.  Every `await` of the JavaScript code is  *)
(* a scheduling point: an invocation is a process whose pc names the       *)
(* remote call it is waiting for, and one action is the code that runs     *)
(* when that call returns, up to the next remote call.                     *)
(*                                                                         *)
(* Texts are sequences of tokens.  A token is a word, a phrase, a blank,   *)
(* a line break or a piece of markup; the regular expressions of the code  *)
(* are modelled by what they do to these tokens.                           *)
(***************************************************************************)
EXTENDS Integers, Sequences, FiniteSets, TLC

\* ------------------------------------------------------------------ bounds
MaxInFlight == 2
MaxThreads == 2

Conversations == {"c1"}
ClockValues == {0, 8}

\* --------------------------------------------------------- program constants
SEVEN_DAYS == 7

NoThread == 0
NoTimestamp == -1
NoConversation == "-"

\* ------------------------------------------------------------------- texts
SP == " "
NL == "\n"
CITE == "[1]"
BOLD == "**"

IsWs(t) == t \in {SP, NL}

\* String.prototype.toLowerCase on one token
ToLower(t) ==
  CASE t = "Escalate" -> "escalate"
    [] t = "Human Agent" -> "human agent"
    [] t = "Resolved" -> "resolved"
    [] t = "All Set" -> "all set"
    [] t = "ESCALATE_TO_HUMAN" -> "escalate_to_human"
    [] OTHER -> t

\* String.prototype.includes on one token: t includes k
Includes(t, k) ==
  \/ t = k
  \/ << t, k >> \in { << "escalate_to_human", "escalate" >>,
                      << "escalate_to_human", "human" >>,
                      << "human agent", "human" >>,
                      << "speak to a human", "human" >> }

RECURSIVE TrimStart(_)
TrimStart(s) ==
  IF s # <<>> /\ IsWs(Head(s)) THEN TrimStart(Tail(s)) ELSE s

RECURSIVE TrimEnd(_)
TrimEnd(s) ==
  IF s # <<>> /\ IsWs(s[Len(s)]) THEN TrimEnd(SubSeq(s, 1, Len(s) - 1)) ELSE s

\* String.prototype.trim
Trim(s) == TrimEnd(TrimStart(s))

RemoveToken(s, t) == SelectSeq(s, LAMBDA x : x # t)

\* length of the longest prefix of s made of tokens of the set S
RECURSIVE PrefixLen(_, _)
PrefixLen(s, S) ==
  IF s # <<>> /\ Head(s) \in S THEN 1 + PrefixLen(Tail(s), S) ELSE 0

Drop(s, n) == SubSeq(s, n + 1, Len(s))
Take(s, n) == SubSeq(s, 1, n)

\* index of the last line break among the first n tokens of s, 0 if none
RECURSIVE LastNl(_, _)
LastNl(s, n) ==
  IF n = 0 THEN 0 ELSE IF s[n] = NL THEN n ELSE LastNl(s, n - 1)

\* replace(/[ \t]{2,}/g, ' ')
RECURSIVE CollapseBlanks(_)
CollapseBlanks(s) ==
  IF s = <<>> THEN <<>>
  ELSE LET n == PrefixLen(s, {SP})
       IN IF n >= 2 THEN <<SP>> \o CollapseBlanks(Drop(s, n))
          ELSE <<Head(s)>> \o CollapseBlanks(Tail(s))

\* replace(/\s+\n/g, '\n'): a run of white space that ends in a line break
\* and has at least one token before that line break becomes one line break
RECURSIVE WsBeforeNl(_)
WsBeforeNl(s) ==
  IF s = <<>> THEN <<>>
  ELSE LET n == PrefixLen(s, {SP, NL})
           j == LastNl(s, n)
       IN IF n = 0 THEN <<Head(s)>> \o WsBeforeNl(Tail(s))
          ELSE IF j >= 2 THEN <<NL>> \o WsBeforeNl(Drop(s, j))
          ELSE Take(s, n) \o WsBeforeNl(Drop(s, n))

\* replace(/\n{3,}/g, '\n\n')
RECURSIVE CollapseNewlines(_)
CollapseNewlines(s) ==
  IF s = <<>> THEN <<>>
  ELSE LET n == PrefixLen(s, {NL})
       IN IF n >= 3 THEN <<NL, NL>> \o CollapseNewlines(Drop(s, n))
          ELSE IF n >= 1 THEN Take(s, n) \o CollapseNewlines(Drop(s, n))
          ELSE <<Head(s)>> \o CollapseNewlines(Tail(s))

\* split('\n').map(line => line.trimEnd()).join('\n')
RECURSIVE TrimEndLines(_)
TrimEndLines(s) ==
  IF s = <<>> THEN <<>>
  ELSE LET n == PrefixLen(s, {SP})
       IN IF n = 0 THEN <<Head(s)>> \o TrimEndLines(Tail(s))
          ELSE IF n = Len(s) \/ s[n + 1] = NL THEN TrimEndLines(Drop(s, n))
          ELSE Take(s, n) \o TrimEndLines(Drop(s, n))

\* The inline citation patterns remove every citation token; the two
\* footnote-line patterns that follow find nothing left to remove.
stripCitations(text) ==
  IF text = <<>> THEN text
  ELSE Trim(WsBeforeNl(CollapseBlanks(RemoveToken(text, CITE))))

\* A "**" is removed either as one end of **bold** or, when it has no
\* partner on its line, as an empty *italic*; the token alphabet has no
\* underscore, backtick, heading or bullet.
formatForWhatsApp(text) ==
  IF text = <<>> THEN text
  ELSE Trim(TrimEndLines(CollapseNewlines(RemoveToken(Trim(text), BOLD))))

escalationKeywords ==
  { "connect you with my manager", "connect you with a manager",
    "speak to my manager", "talk to my manager", "escalate",
    "human agent", "real person" }

\* escalationKeywords.some(k => responseText.toLowerCase().includes(k.toLowerCase()))
needsEscalationOf(responseText) ==
  \E i \in 1..Len(responseText), k \in escalationKeywords :
     Includes(ToLower(responseText[i]), ToLower(k))

resolutionKeywords ==
  { "resolved", "handled", "done", "completed", "sorted", "fixed",
    "all set", "taken care of", "back to bot", "return to bot",
    "handing back", "transferring back" }

\* resolutionKeywords.some(k => messageContent.toLowerCase().includes(k))
hasResolutionKeyword(messageContent) ==
  \E i \in 1..Len(messageContent) : ToLower(messageContent[i]) \in resolutionKeywords

EscalationNotice == <<"I'm connecting you with a team member who will be with you shortly.">>
ApologyMessage == <<"I apologize, but I'm having trouble processing your request. A team member will assist you shortly.">>
WelcomeBackMessage == <<"I'm back! How can I help you today?">>

\* replies the assistant backend may produce
AssistantReplies ==
  { <<"hello", SP, CITE>>, <<"Human Agent">> }

\* texts an agent may post
OperatorTexts == { <<"thanks">>, <<"All Set">> }

\* ------------------------------------------------------------------- state
VARIABLES
  BOT_AGENT_ID,            \* TRUE iff FRESHCHAT_BOT_AGENT_ID is configured
  HUMAN_AGENT_ID,          \* TRUE iff HUMAN_AGENT_ID is configured
  conversationThreads,     \* conversation -> assistant thread id (NoThread: no entry)
  threadTimestamps,        \* conversation -> last activity (NoTimestamp: no entry)
  escalatedConversations,  \* conversations the bot must stay silent in
  disk,                    \* content of threads.json
  fileSystem,              \* "reliable": every write of threads.json succeeds; "failing": a write may fail
  now,                     \* Date.now(), in days
  nextThread,              \* threads created at the assistant backend so far
  submitted,               \* conversation -> threads its messages went to since its last reset or eviction
  procs,                   \* the invocations in flight
  text,                    \* a text function under test: its input and its results
  poll,                    \* a poll loop of getAssistantResponse: its position and counters
  send                     \* a call of sendFreshchatMessage: its position and its attempts

vars ==
  << BOT_AGENT_ID, HUMAN_AGENT_ID, conversationThreads, threadTimestamps,
     escalatedConversations, disk, fileSystem, now, nextThread, submitted, procs,
     text, poll, send >>

\* the variables of the relay
relay ==
  << BOT_AGENT_ID, HUMAN_AGENT_ID, conversationThreads, threadTimestamps,
     escalatedConversations, disk, fileSystem, now, nextThread, submitted, procs >>

\* what no step of the relay changes: the agent ids and the file system of
\* the environment, and the text, the poll loop and the send under test
config == << BOT_AGENT_ID, HUMAN_AGENT_ID, fileSystem, text, poll, send >>
stores == << conversationThreads, threadTimestamps, escalatedConversations >>

Slots == 1..MaxInFlight

IdleProc ==
  [ kind |-> "none", pc |-> "idle", conv |-> NoConversation, thread |-> NoThread,
    origin |-> "none", response |-> <<>>, needsEscalation |-> FALSE,
    sent |-> <<>>, error |-> "none", failedSend |-> FALSE, escaped |-> FALSE ]

\* an invocation of `kind` for conversation c, started by `origin`, waiting at `pc`
NewProc(kind, origin, c, pc) ==
  [ IdleProc EXCEPT !.kind = kind, !.origin = origin, !.conv = c, !.pc = pc ]

HasFreeSlot == \E p \in Slots : procs[p].pc = "idle"
FreeSlot == CHOOSE p \in Slots : procs[p].pc = "idle" /\ \A q \in Slots : procs[q].pc = "idle" => p <= q

InFlight(p) == procs[p].pc \notin {"idle", "done"}

\* JSON written by saveThreads
Snapshot(threads, timestamps, escalated) ==
  [ threads |-> threads, timestamps |-> timestamps, escalated |-> escalated ]

\* saveThreads, called after the stores of the step are set
\* fs.writeFile succeeds, or it fails and the catch block of saveThreads logs
saveThreads ==
  disk' \in { Snapshot(conversationThreads', threadTimestamps', escalatedConversations') }
              \cup (IF fileSystem = "failing" THEN {disk} ELSE {})

NoText == [ stage |-> "none" ]
NoPoll == [ pc |-> "none" ]
NoSend == [ pc |-> "none" ]

\* the relay after start-up, with no threads file to load
InitStores ==
  /\ BOT_AGENT_ID \in BOOLEAN
  /\ HUMAN_AGENT_ID \in BOOLEAN
  /\ conversationThreads = [c \in Conversations |-> NoThread]
  /\ threadTimestamps = [c \in Conversations |-> NoTimestamp]
  /\ escalatedConversations = {}
  /\ disk = Snapshot([c \in Conversations |-> NoThread], [c \in Conversations |-> NoTimestamp], {})
  /\ now = 0
  /\ nextThread = 0
  /\ submitted = [c \in Conversations |-> {}]
  /\ procs = [p \in Slots |-> IdleProc]

\* the relay on a file system whose writes succeed
InitRelay == InitStores /\ fileSystem = "reliable"

Init == InitRelay /\ text = NoText /\ poll = NoPoll /\ send = NoSend

\* the relay on a file system whose writes may fail
InitDisk ==
  /\ InitStores
  /\ fileSystem \in {"reliable", "failing"}
  /\ text = NoText /\ poll = NoPoll /\ send = NoSend

\* ------------------------------------------------ outcomes of remote calls
\* GET /conversations/:id : the assigned agent, or an error
OwnershipQueryResults == {"none", "bot", "human", "error"}
\* an agent id of a webhook event: null, BOT_AGENT_ID, or another agent's
AgentIds == {"none", "bot", "human"}
\* one call of sendFreshchatMessage: it returns after an accepted attempt, or
\* throws the error of its last attempt
SendOutcomes == {"sent", "throw"}
\* ways the assistant call fails after the user message was submitted
AssistantFailures == {"run_failed", "run_expired", "timeout", "no_reply", "api_error"}

\* an agent id equal to BOT_AGENT_ID exists only when that is configured
PossibleAgent(a) == a = "bot" => BOT_AGENT_ID

Set(p, pr) == procs' = [procs EXCEPT ![p] = pr]

\* ---------------------------------------------------- sendFreshchatMessage
\* the invocation record after sendFreshchatMessage sent `message`
\* a send that delivers the message twice
Sent_Twice(pr, message) == [pr EXCEPT !.sent = @ \o << message, message >>]

Sent(pr, message) == [pr EXCEPT !.sent = Append(@, message)]
\* the invocation record entering sendFreshchatMessage at `pc`
Sending(pr, pc) == [pr EXCEPT !.pc = pc]
\* the invocation record when sendFreshchatMessage throws
\* a send whose exception no catch block takes: the invocation's promise rejects
Threw_Uncaught(pr) == [pr EXCEPT !.failedSend = TRUE, !.escaped = TRUE]

Threw(pr) == [pr EXCEPT !.failedSend = TRUE]
Done(pr) == [pr EXCEPT !.pc = "done", !.thread = NoThread]

\* ------------------------------------------------- isConversationWithHuman
isConversationWithHuman(c, assigned) ==
  IF assigned = "error" THEN FALSE
  ELSE IF assigned = "human" THEN TRUE
  ELSE c \in escalatedConversations

\* --------------------------------------------------------- escalateToHuman
\* entry of escalateToHuman, up to its first remote call
EscalateEnter(p, pr) ==
  IF ~HUMAN_AGENT_ID
  THEN /\ escalatedConversations' = escalatedConversations \cup {pr.conv}
       /\ UNCHANGED << conversationThreads, threadTimestamps >>
       /\ saveThreads
       /\ Set(p, Done(pr))
  ELSE /\ Set(p, [pr EXCEPT !.pc = "esc_put"])
       /\ UNCHANGED << stores, disk >>

\* an escalation that a failed reassignment blocks
EscalatePut_OnlyOnSuccess(p, ok) ==
  LET pr == procs[p] IN
  /\ pr.pc = "esc_put"
  /\ escalatedConversations' = IF ok THEN escalatedConversations \cup {pr.conv}
                                ELSE escalatedConversations
  /\ UNCHANGED << conversationThreads, threadTimestamps >>
  /\ saveThreads
  /\ IF ok THEN Set(p, Sending(pr, "esc_notice")) ELSE Set(p, Done(pr))
  /\ UNCHANGED << config, now, nextThread, submitted >>

\* the reassignment PUT returns
EscalatePut(p, ok) ==
  LET pr == procs[p] IN
  /\ pr.pc = "esc_put"
  /\ escalatedConversations' = escalatedConversations \cup {pr.conv}
  /\ UNCHANGED << conversationThreads, threadTimestamps >>
  /\ saveThreads
  /\ IF ok THEN Set(p, Sending(pr, "esc_notice")) ELSE Set(p, Done(pr))
  /\ UNCHANGED << config, now, nextThread, submitted >>

\* sending the escalation notice ends
EscalateNotice(p, outcome) ==
  LET pr == procs[p]
      r == outcome IN
  /\ pr.pc = "esc_notice"
  /\ CASE r = "sent" ->
            /\ Set(p, Done(Sent(pr, EscalationNotice)))
            /\ UNCHANGED << stores, disk >>
       [] OTHER ->
            /\ escalatedConversations' = escalatedConversations \cup {pr.conv}
            /\ UNCHANGED << conversationThreads, threadTimestamps >>
            /\ saveThreads
            /\ Set(p, Done(Threw(pr)))
  /\ UNCHANGED << config, now, nextThread, submitted >>

\* ---------------------------------------------------------- processMessage
\* the webhook's user-message branch starts processMessage
UserMessage(c) ==
  /\ HasFreeSlot
  /\ Set(FreeSlot, NewProc("processMessage", "user_message", c, "pm_check"))
  /\ UNCHANGED << config, stores, disk, now, nextThread, submitted >>

\* the catch block of processMessage, up to its send
Catch(pr, error) == [Sending(pr, "pm_fallback") EXCEPT !.error = error]

\* the ownership query returns; then getAssistantResponse looks the thread up
ProcessCheck(p, assigned) ==
  LET pr == procs[p] IN
  /\ pr.pc = "pm_check"
  /\ PossibleAgent(assigned)
  /\ IF isConversationWithHuman(pr.conv, assigned)
     THEN /\ Set(p, Done(pr))
          /\ UNCHANGED threadTimestamps
     ELSE IF conversationThreads[pr.conv] = NoThread
     THEN /\ Set(p, [pr EXCEPT !.pc = "pm_create"])
          /\ UNCHANGED threadTimestamps
     ELSE /\ Set(p, [pr EXCEPT !.pc = "pm_submit", !.thread = conversationThreads[pr.conv]])
          /\ threadTimestamps' = [threadTimestamps EXCEPT ![pr.conv] = now]
  /\ UNCHANGED << config, conversationThreads, escalatedConversations, disk, now, nextThread, submitted >>

\* a thread recorded without the time of its use
CreateThread_NoTimestamp(p, ok) ==
  LET pr == procs[p] IN
  /\ pr.pc = "pm_create"
  /\ IF ok
     THEN /\ nextThread < MaxThreads
          /\ nextThread' = nextThread + 1
          /\ conversationThreads' = [conversationThreads EXCEPT ![pr.conv] = nextThread + 1]
          /\ Set(p, [pr EXCEPT !.pc = "pm_submit", !.thread = nextThread + 1])
     ELSE /\ Set(p, Catch(pr, "assistant"))
          /\ UNCHANGED << nextThread, conversationThreads >>
  /\ UNCHANGED << config, threadTimestamps, escalatedConversations, disk, now, submitted >>

\* openai.beta.threads.create returns
CreateThread(p, ok) ==
  LET pr == procs[p] IN
  /\ pr.pc = "pm_create"
  /\ IF ok
     THEN /\ nextThread < MaxThreads
          /\ nextThread' = nextThread + 1
          /\ conversationThreads' = [conversationThreads EXCEPT ![pr.conv] = nextThread + 1]
          /\ threadTimestamps' = [threadTimestamps EXCEPT ![pr.conv] = now]
          /\ Set(p, [pr EXCEPT !.pc = "pm_submit", !.thread = nextThread + 1])
     ELSE /\ Set(p, Catch(pr, "assistant"))
          /\ UNCHANGED << nextThread, conversationThreads, threadTimestamps >>
  /\ UNCHANGED << config, escalatedConversations, disk, now, submitted >>

\* openai.beta.threads.messages.create returns
SubmitMessage(p, ok) ==
  LET pr == procs[p] IN
  /\ pr.pc = "pm_submit"
  /\ IF ok
     THEN /\ submitted' = [submitted EXCEPT ![pr.conv] = @ \cup {pr.thread}]
          /\ Set(p, [pr EXCEPT !.pc = "pm_run"])
     ELSE /\ Set(p, Catch(pr, "assistant"))
          /\ UNCHANGED submitted
  /\ UNCHANGED << config, stores, disk, now, nextThread >>

\* the run ends with a reply: getAssistantResponse returns, processMessage
\* saves the threads and starts sending the cleaned reply
RunCompletes(p, reply) ==
  LET pr == procs[p] IN
  /\ pr.pc = "pm_run"
  /\ Set(p, [Sending(pr, "pm_send") EXCEPT !.response = reply,
                                           !.needsEscalation = needsEscalationOf(reply)])
  /\ UNCHANGED stores
  /\ saveThreads
  /\ UNCHANGED << config, now, nextThread, submitted >>

\* the run fails, expires, times out or leaves no reply
RunFails(p, failure) ==
  LET pr == procs[p] IN
  /\ pr.pc = "pm_run"
  /\ Set(p, Catch(pr, "assistant"))
  /\ UNCHANGED << config, stores, disk, now, nextThread, submitted >>

\* the text processMessage sends for an assistant response
\* a reply relayed as the assistant wrote it
cleanedResponse_Verbatim(response) == response

cleanedResponse(response) == formatForWhatsApp(stripCitations(response))

\* sending the reply ends
SendReply(p, outcome) ==
  LET pr == procs[p]
      r == outcome IN
  /\ pr.pc = "pm_send"
  /\ CASE r = "sent" ->
            LET after == Sent(pr, cleanedResponse(pr.response)) IN
            IF pr.needsEscalation
            THEN EscalateEnter(p, after)
            ELSE Set(p, Done(after)) /\ UNCHANGED << stores, disk >>
       [] OTHER ->
            /\ Set(p, Catch(Threw(pr), "delivery"))
            /\ UNCHANGED << stores, disk >>
  /\ UNCHANGED << config, now, nextThread, submitted >>

\* a catch block that escalates whether or not a human agent is configured
SendFallback_AlwaysEscalate(p, outcome) ==
  LET pr == procs[p] IN
  /\ pr.pc = "pm_fallback"
  /\ IF outcome = "sent"
     THEN /\ escalatedConversations' = escalatedConversations \cup {pr.conv}
          /\ UNCHANGED << conversationThreads, threadTimestamps >>
          /\ saveThreads
          /\ Set(p, Done(Sent(pr, ApologyMessage)))
     ELSE /\ Set(p, Done(Threw(pr)))
          /\ UNCHANGED << stores, disk >>
  /\ UNCHANGED << config, now, nextThread, submitted >>

\* sending the apology ends
SendFallback(p, outcome) ==
  LET pr == procs[p]
      r == outcome IN
  /\ pr.pc = "pm_fallback"
  /\ CASE r = "sent" ->
            LET after == Sent(pr, ApologyMessage) IN
            IF HUMAN_AGENT_ID
            THEN EscalateEnter(p, after)
            ELSE Set(p, Done(after)) /\ UNCHANGED << stores, disk >>
       [] OTHER ->
            /\ Set(p, Done(Threw(pr)))
            /\ UNCHANGED << stores, disk >>
  /\ UNCHANGED << config, now, nextThread, submitted >>

\* ------------------------------------------------------------- returnToBot
\* entry of returnToBot, up to its first remote call
ReturnEnter(c, origin) ==
  IF BOT_AGENT_ID
  THEN /\ Set(FreeSlot, NewProc("returnToBot", origin, c, "rb_put"))
       /\ UNCHANGED << stores, disk >>
  ELSE /\ escalatedConversations' = escalatedConversations \ {c}
       /\ UNCHANGED << conversationThreads, threadTimestamps >>
       /\ saveThreads
       /\ Set(FreeSlot, Sending(NewProc("returnToBot", origin, c, "rb_send"), "rb_send"))

\* a hand-back that clears the session of the conversation
ReturnPut_ClearsSession(p, ok) ==
  LET pr == procs[p] IN
  /\ pr.pc = "rb_put"
  /\ escalatedConversations' = escalatedConversations \ {pr.conv}
  /\ conversationThreads' = [conversationThreads EXCEPT ![pr.conv] = NoThread]
  /\ threadTimestamps' = [threadTimestamps EXCEPT ![pr.conv] = NoTimestamp]
  /\ saveThreads
  /\ IF ok THEN Set(p, Sending(pr, "rb_send")) ELSE Set(p, Done(pr))
  /\ UNCHANGED << config, now, nextThread, submitted >>

\* the reassignment PUT of returnToBot returns
ReturnPut(p, ok) ==
  LET pr == procs[p] IN
  /\ pr.pc = "rb_put"
  /\ escalatedConversations' = escalatedConversations \ {pr.conv}
  /\ UNCHANGED << conversationThreads, threadTimestamps >>
  /\ saveThreads
  /\ IF ok THEN Set(p, Sending(pr, "rb_send")) ELSE Set(p, Done(pr))
  /\ UNCHANGED << config, now, nextThread, submitted >>

\* sending the welcome-back message ends
ReturnSend(p, outcome) ==
  LET pr == procs[p]
      r == outcome IN
  /\ pr.pc = "rb_send"
  /\ CASE r = "sent" ->
            /\ Set(p, Done(Sent(pr, WelcomeBackMessage)))
            /\ UNCHANGED << stores, disk >>
       [] OTHER ->
            /\ escalatedConversations' = escalatedConversations \ {pr.conv}
            /\ UNCHANGED << conversationThreads, threadTimestamps >>
            /\ saveThreads
            /\ Set(p, Done(Threw(pr)))
  /\ UNCHANGED << config, now, nextThread, submitted >>

\* ----------------------------------------------------------- webhook events
\* the agent-message branch hands the conversation back
\* a hand-back that does not tell the bot's own messages from an operator's
IsResolution_AnyAgent(c, agentId, messageContent) ==
  /\ agentId # "none"
  /\ c \in escalatedConversations
  /\ hasResolutionKeyword(messageContent)

IsResolution(c, agentId, messageContent) ==
  /\ agentId # "none"
  /\ ~(BOT_AGENT_ID /\ agentId = "bot")
  /\ c \in escalatedConversations
  /\ hasResolutionKeyword(messageContent)

\* a handler that answers the message of an agent as it answers a user's
AgentMessage_Answered(c, agentId, messageContent) ==
  /\ HasFreeSlot
  /\ Set(FreeSlot, NewProc("processMessage", "agent_message", c, "pm_check"))
  /\ UNCHANGED << config, stores, disk, now, nextThread, submitted >>

\* message_create by an agent
AgentMessage(c, agentId, messageContent) ==
  /\ IF IsResolution(c, agentId, messageContent)
     THEN HasFreeSlot /\ ReturnEnter(c, "agent_message")
     ELSE UNCHANGED << stores, disk, procs >>
  /\ UNCHANGED << config, now, nextThread, submitted >>

\* the assignment branch takes the event as a return to the bot
AssignedToBot(c, assignedAgentId) ==
  \/ BOT_AGENT_ID /\ assignedAgentId = "bot"
  \/ assignedAgentId = "none" /\ c \in escalatedConversations

\* the assignment branch takes the event as a takeover by a human
AssignedToHuman(c, assignedAgentId) ==
  /\ assignedAgentId # "none"
  /\ ~(BOT_AGENT_ID /\ assignedAgentId = "bot")

\* conversation_assignment, or conversation_update with a conversation
AssignmentEvent(c, assignedAgentId) ==
  /\ IF AssignedToBot(c, assignedAgentId)
     THEN /\ HasFreeSlot
          /\ escalatedConversations' = escalatedConversations \ {c}
          /\ UNCHANGED << conversationThreads, threadTimestamps >>
          /\ saveThreads
          /\ IF BOT_AGENT_ID
             THEN Set(FreeSlot, NewProc("returnToBot", "assignment", c, "rb_put"))
             ELSE Set(FreeSlot, Sending(NewProc("returnToBot", "assignment", c, "rb_send"), "rb_send"))
     ELSE IF AssignedToHuman(c, assignedAgentId)
     THEN /\ escalatedConversations' = escalatedConversations \cup {c}
          /\ UNCHANGED << conversationThreads, threadTimestamps >>
          /\ saveThreads
          /\ UNCHANGED procs
     ELSE UNCHANGED << stores, disk, procs >>
  /\ UNCHANGED << config, now, nextThread, submitted >>

\* ------------------------------------------------------ management endpoints
\* POST /return-to-bot/:conversationId
ManualReturn(c) ==
  /\ HasFreeSlot
  /\ ReturnEnter(c, "manual")
  /\ UNCHANGED << config, now, nextThread, submitted >>

\* POST /reset-escalation/:conversationId
\* a reset that clears the escalation and keeps the thread
ResetEscalation_KeepsThread(c) ==
  /\ escalatedConversations' = escalatedConversations \ {c}
  /\ UNCHANGED << conversationThreads, threadTimestamps >>
  /\ saveThreads
  /\ submitted' = [submitted EXCEPT ![c] = {}]
  /\ UNCHANGED << config, now, nextThread, procs >>

ResetEscalation(c) ==
  /\ escalatedConversations' = escalatedConversations \ {c}
  /\ conversationThreads' = [conversationThreads EXCEPT ![c] = NoThread]
  /\ threadTimestamps' = [threadTimestamps EXCEPT ![c] = NoTimestamp]
  /\ saveThreads
  /\ submitted' = [submitted EXCEPT ![c] = {}]
  /\ UNCHANGED << config, now, nextThread, procs >>

\* ------------------------------------------------------------------ cleanup
\* an eviction that also takes the entry whose age is exactly the retention window
Stale_Inclusive(c) == threadTimestamps[c] # NoTimestamp /\ threadTimestamps[c] <= now - SEVEN_DAYS

Stale(c) == threadTimestamps[c] # NoTimestamp /\ threadTimestamps[c] < now - SEVEN_DAYS

\* the escalated set when cleanupOldThreads returns
escalatedAfterCleanup == escalatedConversations \ { c \in DOMAIN threadTimestamps : Stale(c) }

cleanupOldThreads ==
  LET old == { c \in DOMAIN threadTimestamps : Stale(c) } IN
  /\ conversationThreads' = [c \in DOMAIN conversationThreads |-> IF c \in old THEN NoThread ELSE conversationThreads[c]]
  /\ threadTimestamps' = [c \in DOMAIN threadTimestamps |-> IF c \in old THEN NoTimestamp ELSE threadTimestamps[c]]
  /\ escalatedConversations' = escalatedAfterCleanup
  /\ IF old # {} THEN saveThreads ELSE UNCHANGED disk
  /\ submitted' = [c \in DOMAIN submitted |-> IF c \in old THEN {} ELSE submitted[c]]
  /\ UNCHANGED << config, now, nextThread, procs >>

\* time passes
Tick ==
  /\ \E t \in ClockValues : t > now /\ now' = t
  /\ UNCHANGED << config, stores, disk, nextThread, submitted, procs >>

\* a finished invocation is forgotten
Retire(p) ==
  /\ procs[p].pc = "done"
  /\ Set(p, IdleProc)
  /\ UNCHANGED << config, stores, disk, now, nextThread, submitted >>

\* ------------------------------------------------------------ specification
Events ==
  \/ \E c \in Conversations : UserMessage(c)
  \/ \E c \in Conversations, a \in AgentIds, t \in OperatorTexts : PossibleAgent(a) /\ AgentMessage(c, a, t)
  \/ \E c \in Conversations, a \in AgentIds : PossibleAgent(a) /\ AssignmentEvent(c, a)
  \/ \E c \in Conversations : ManualReturn(c)
  \/ \E c \in Conversations : ResetEscalation(c)
  \/ cleanupOldThreads
  \/ Tick

Steps ==
  \/ \E p \in Slots, a \in OwnershipQueryResults : ProcessCheck(p, a)
  \/ \E p \in Slots, ok \in BOOLEAN : CreateThread(p, ok)
  \/ \E p \in Slots, ok \in BOOLEAN : SubmitMessage(p, ok)
  \/ \E p \in Slots, r \in AssistantReplies : RunCompletes(p, r)
  \/ \E p \in Slots, f \in AssistantFailures : RunFails(p, f)
  \/ \E p \in Slots, o \in SendOutcomes : SendReply(p, o)
  \/ \E p \in Slots, o \in SendOutcomes : SendFallback(p, o)
  \/ \E p \in Slots, ok \in BOOLEAN : EscalatePut(p, ok)
  \/ \E p \in Slots, o \in SendOutcomes : EscalateNotice(p, o)
  \/ \E p \in Slots, ok \in BOOLEAN : ReturnPut(p, ok)
  \/ \E p \in Slots, o \in SendOutcomes : ReturnSend(p, o)
  \/ \E p \in Slots : Retire(p)

Next == Events \/ Steps

Spec == Init /\ [][Next]_vars

\* No invocation is in flight: the webhook events arrive one after the other,
\* each after the processing of the one before has ended.
Quiet == \A p \in Slots : ~InFlight(p)

NextSeq == (Quiet /\ Events) \/ Steps

SpecSeq == Init /\ [][NextSeq]_vars

\* one event at a time, on a file system whose writes may fail
SpecDisk == InitDisk /\ [][NextSeq]_vars

\* --------------------------------- user messages with no hand-back between
\* The user messages of a conversation arrive while earlier ones are still
\* processed; no agent takes part and nothing is handed back.
NextUserOnly ==
  \/ \E c \in Conversations : UserMessage(c)
  \/ \E p \in Slots, a \in OwnershipQueryResults : ProcessCheck(p, a)
  \/ \E p \in Slots, ok \in BOOLEAN : CreateThread(p, ok)
  \/ \E p \in Slots, ok \in BOOLEAN : SubmitMessage(p, ok)
  \/ \E p \in Slots, r \in AssistantReplies : RunCompletes(p, r)
  \/ \E p \in Slots, f \in AssistantFailures : RunFails(p, f)
  \/ \E p \in Slots, o \in SendOutcomes : SendReply(p, o)
  \/ \E p \in Slots, o \in SendOutcomes : SendFallback(p, o)
  \/ \E p \in Slots, ok \in BOOLEAN : EscalatePut(p, ok)
  \/ \E p \in Slots, o \in SendOutcomes : EscalateNotice(p, o)

SpecUserOnly == Init /\ [][NextUserOnly]_vars

\* ------------------------------------- the poll loop of getAssistantResponse
maxAttempts == 60

\* run statuses the backend reports; "in_progress" stands for every status
\* the loop waits on (queued, in_progress, requires_action, cancelled, ...)
RunStatuses == {"in_progress", "completed", "failed", "expired"}
\* what a call of runs.retrieve does: it returns a status, or it throws
RetrieveResults == RunStatuses \cup {"error"}

InitPoll ==
  /\ InitRelay
  /\ text = NoText
  /\ send = NoSend
  /\ poll = [ pc |-> "first", runStatus |-> "none", attempts |-> 0, waits |-> 0,
              outcome |-> "none" ]

PollEnds(outcome) == [poll EXCEPT !.pc = "ended", !.outcome = outcome]

\* From the head of the while loop to the next wait, or to the end of the
\* loop and the test that follows it, with the status and the count given.
LoopHead(runStatus, attempts) ==
  LET at == [poll EXCEPT !.runStatus = runStatus, !.attempts = attempts] IN
  IF runStatus # "completed" /\ attempts < maxAttempts
  THEN IF runStatus = "failed" THEN [at EXCEPT !.pc = "ended", !.outcome = "failed"]
       ELSE IF runStatus = "expired" THEN [at EXCEPT !.pc = "ended", !.outcome = "expired"]
       ELSE [at EXCEPT !.pc = "wait"]
  ELSE IF runStatus # "completed" THEN [at EXCEPT !.pc = "ended", !.outcome = "timeout"]
  ELSE [at EXCEPT !.pc = "ended", !.outcome = "reply"]

\* a loop whose polls are not counted
PollRetrieve_NoCount(r) ==
  /\ poll.pc \in {"first", "retrieve"}
  /\ poll' = IF r = "error" THEN PollEnds("api_error") ELSE LoopHead(r, poll.attempts)
  /\ UNCHANGED << relay, text, send >>

\* runs.retrieve returns or throws: before the loop, and in it after each wait
PollRetrieve(r) ==
  /\ poll.pc \in {"first", "retrieve"}
  /\ poll' = IF r = "error" THEN PollEnds("api_error")
             ELSE LoopHead(r, IF poll.pc = "first" THEN 0 ELSE poll.attempts + 1)
  /\ UNCHANGED << relay, text, send >>

\* the one-second wait of the loop ends
PollWait ==
  /\ poll.pc = "wait"
  /\ poll' = [poll EXCEPT !.pc = "retrieve", !.waits = @ + 1]
  /\ UNCHANGED << relay, text, send >>

NextPoll ==
  \/ \E r \in RetrieveResults : PollRetrieve(r)
  \/ PollWait

SpecPoll == InitPoll /\ [][NextPoll]_vars

\* the poll loop of the v4 server: it tests for failure after each poll of
\* the loop, and for the ceiling after the loop
WhileTestV4(at) ==
  IF at.runStatus # "completed" /\ at.attempts < maxAttempts
  THEN [at EXCEPT !.pc = "wait"]
  ELSE IF at.attempts >= maxAttempts
  THEN [at EXCEPT !.pc = "ended", !.outcome = "timeout"]
  ELSE [at EXCEPT !.pc = "ended", !.outcome = "reply"]

\* runs.retrieve of the v4 server returns or throws
PollRetrieveV4(r) ==
  /\ poll.pc \in {"first", "retrieve"}
  /\ poll' = IF r = "error" THEN PollEnds("api_error")
             ELSE IF poll.pc = "first" THEN WhileTestV4([poll EXCEPT !.runStatus = r])
             ELSE IF r \in {"failed", "expired"}
             THEN [poll EXCEPT !.runStatus = r, !.attempts = @ + 1,
                               !.pc = "ended", !.outcome = r]
             ELSE WhileTestV4([poll EXCEPT !.runStatus = r, !.attempts = @ + 1])
  /\ UNCHANGED << relay, text, send >>

NextPollV4 ==
  \/ \E r \in RetrieveResults : PollRetrieveV4(r)
  \/ PollWait

SpecPollV4 == InitPoll /\ [][NextPollV4]_vars

\* ------------------------------------ concurrent runs on one shared thread
\* The invocations of getAssistantResponse for one conversation use the
\* same thread.  The backend refuses a message while a run of the thread is
\* active; a run that ends appends its assistant message to the thread.
NoRun == [ pc |-> "submit", relayed |-> 0, responseText |-> <<>> ]

InitThread ==
  /\ InitRelay
  /\ poll = NoPoll
  /\ send = NoSend
  /\ text = [ stage |-> "thread", messages |-> <<>>, run |-> [i \in Slots |-> NoRun] ]

RunActive == \E j \in Slots : text.run[j].pc = "running"

\* messages.create and runs.create return, or the backend refuses them
ThreadSubmit(i) ==
  /\ text.stage = "thread"
  /\ text.run[i].pc = "submit"
  /\ text' = [text EXCEPT !.run[i].pc = IF RunActive THEN "failed" ELSE "running"]
  /\ UNCHANGED << relay, poll, send >>

\* the run of invocation i ends at the backend with the reply r
ThreadRunEnds(i, r) ==
  /\ text.stage = "thread"
  /\ text.run[i].pc = "running"
  /\ text' = [text EXCEPT !.run[i].pc = "completed",
                          !.messages = Append(@, [ run |-> i, value |-> r ])]
  /\ UNCHANGED << relay, poll, send >>

\* messages.data.filter(role === 'assistant').sort(by created_at, descending)[0]
LatestAssistantMessage(messages) == messages[Len(messages)]

\* the poll of invocation i finds its run completed; it lists the messages
\* of the thread and returns the text of the latest assistant message
ThreadList(i) ==
  /\ text.stage = "thread"
  /\ text.run[i].pc = "completed"
  /\ LET m == LatestAssistantMessage(text.messages) IN
     text' = [text EXCEPT !.run[i] = [ pc |-> "returned", relayed |-> m.run,
                                       responseText |-> m.value ]]
  /\ UNCHANGED << relay, poll, send >>

NextThread ==
  \/ \E i \in Slots : ThreadSubmit(i)
  \/ \E i \in Slots, r \in AssistantReplies : ThreadRunEnds(i, r)
  \/ \E i \in Slots : ThreadList(i)

SpecThread == InitThread /\ [][NextThread]_vars

\* ------------------------------------------ the loop of sendFreshchatMessage
\* The v8 server repeats one payload up to `retries` times; the v4 server
\* goes once through its list of payload shapes.
retries == 3

\* what a POST of a message does: it is accepted, or it fails without
\* response, with a 5xx response or with another error response
PostResults == {"success", "network_error", "status_5xx", "status_4xx"}

\* the payload shapes the v4 server has for a message: two of the five are
\* there only with BOT_AGENT_ID and with a channel id
PayloadShapes(channelId) ==
  3 + (IF BOT_AGENT_ID THEN 1 ELSE 0) + (IF channelId THEN 1 ELSE 0)

InitSend ==
  /\ InitRelay
  /\ text = NoText
  /\ poll = NoPoll
  /\ \E version \in {"v8", "v4"}, channelId \in BOOLEAN :
       /\ version = "v8" => ~channelId
       /\ send = [ pc |-> "post", version |-> version, channelId |-> channelId,
                   attempt |-> 1, results |-> <<>>, delivered |-> 0 ]

\* Whether the platform took the message of a POST: it did when the POST
\* succeeded, it did not when it answered with an error, and either is
\* possible when no response arrived (a timeout after 10 s included).
Accepts(r, accepted) ==
  CASE r = "success" -> accepted
    [] r = "network_error" -> TRUE
    [] OTHER -> ~accepted

\* a retry after every failure
ShouldRetry_AnyError(attempt, r) == attempt < retries

\* attempt < retries && (!error.response || error.response.status >= 500)
ShouldRetry(attempt, r) == attempt < retries /\ r \in {"network_error", "status_5xx"}

\* the POST of the v8 server returns or throws
SendAttempt(r, accepted) ==
  /\ send.pc = "post"
  /\ send.version = "v8"
  /\ Accepts(r, accepted)
  /\ send' = [send EXCEPT !.results = Append(@, r),
                          !.delivered = IF accepted THEN @ + 1 ELSE @,
                          !.pc = IF r = "success" THEN "returned"
                                 ELSE IF ShouldRetry(send.attempt, r) THEN "delay"
                                 ELSE "thrown"]
  /\ UNCHANGED << relay, text, poll >>

\* the POST of the v4 server returns or throws
SendShape(r, accepted) ==
  /\ send.pc = "post"
  /\ send.version = "v4"
  /\ Accepts(r, accepted)
  /\ send' = [send EXCEPT !.results = Append(@, r),
                          !.delivered = IF accepted THEN @ + 1 ELSE @,
                          !.pc = IF r = "success" THEN "returned"
                                 ELSE IF send.attempt = PayloadShapes(send.channelId) THEN "thrown"
                                 ELSE "delay"]
  /\ UNCHANGED << relay, text, poll >>

\* the wait before the next attempt ends
SendDelay ==
  /\ send.pc = "delay"
  /\ send' = [send EXCEPT !.pc = "post", !.attempt = @ + 1]
  /\ UNCHANGED << relay, text, poll >>

NextSend ==
  \/ \E r \in PostResults, accepted \in BOOLEAN : SendAttempt(r, accepted)
  \/ \E r \in PostResults, accepted \in BOOLEAN : SendShape(r, accepted)
  \/ SendDelay

SpecSend == InitSend /\ [][NextSend]_vars

\* ------------------------------------------------ eviction of stale sessions
\* cleanupOldThreads over stores of several conversations, of every age
\* around the retention window, followed by the user messages that find
\* their thread evicted
EvictConversations == {"c1", "c2"}
MaxAge == 3
EvictTimes == 0..MaxAge
EvictClock == SEVEN_DAYS..(SEVEN_DAYS + MaxAge)

\* the thread a conversation got, when the conversations of withThread got
\* theirs: threads are numbered as they are created
ThreadOf(c, withThread) == IF c = "c1" THEN 1 ELSE Cardinality(withThread)

InitEvict ==
  /\ BOT_AGENT_ID \in BOOLEAN
  /\ HUMAN_AGENT_ID = FALSE
  /\ fileSystem = "reliable"
  /\ text = NoText
  /\ poll = NoPoll
  /\ send = NoSend
  /\ \E withThread \in SUBSET EvictConversations :
       /\ conversationThreads =
            [c \in EvictConversations |-> IF c \in withThread THEN ThreadOf(c, withThread) ELSE NoThread]
       /\ threadTimestamps \in
            { ts \in [EvictConversations -> EvictTimes \cup {NoTimestamp}] :
                 \A c \in EvictConversations : ts[c] = NoTimestamp <=> c \notin withThread }
       /\ nextThread = Cardinality(withThread)
       /\ submitted = [c \in EvictConversations |-> IF c \in withThread THEN {ThreadOf(c, withThread)} ELSE {}]
  /\ escalatedConversations \in SUBSET EvictConversations
  /\ disk = Snapshot(conversationThreads, threadTimestamps, escalatedConversations)
  /\ now \in EvictClock
  /\ procs = [p \in Slots |-> IdleProc]

NextEvict ==
  \/ cleanupOldThreads
  \/ \E c \in EvictConversations : Quiet /\ UserMessage(c)
  \/ \E p \in Slots, a \in OwnershipQueryResults : ProcessCheck(p, a)
  \/ \E p \in Slots, ok \in BOOLEAN : CreateThread(p, ok)
  \/ \E p \in Slots : Retire(p)

SpecEvict == InitEvict /\ [][NextEvict]_vars

\* ------------------------------------------- the threads file, written and read
\* the members of a set, one after the other
RECURSIVE SeqOf(_)
SeqOf(S) ==
  IF S = {} THEN <<>>
  ELSE LET x == CHOOSE y \in S : TRUE IN << x >> \o SeqOf(S \ {x})

\* Object.fromEntries(map), as JSON.stringify writes it: the pairs of the
\* keys the map has
Entries(map, none) ==
  SeqOf({ << k, map[k] >> : k \in { c \in DOMAIN map : map[c] # none } })

\* a reader that skips the first pair of an object
FromEntries_SkipsFirst(entries, keys, none) ==
  [ k \in keys |->
      IF \E i \in 2..Len(entries) : entries[i][1] = k
      THEN entries[CHOOSE i \in 2..Len(entries) : entries[i][1] = k][2]
      ELSE none ]

\* Object.entries(object).forEach(([k, v]) => map.set(k, v)) on an empty map
FromEntries(entries, keys, none) ==
  [ k \in keys |->
      IF \E i \in 1..Len(entries) : entries[i][1] = k
      THEN entries[CHOOSE i \in 1..Len(entries) :
                      /\ entries[i][1] = k
                      /\ \A j \in 1..Len(entries) : entries[j][1] = k => j <= i][2]
      ELSE none ]

\* saveThreads writes the file
SaveToFile ==
  /\ text.stage = "none"
  /\ text' = [ stage |-> "saved",
               threads |-> Entries(conversationThreads, NoThread),
               timestamps |-> Entries(threadTimestamps, NoTimestamp),
               escalated |-> SeqOf(escalatedConversations) ]
  /\ UNCHANGED << relay, poll, send >>

\* loadThreads reads the file into the empty stores of a started process
LoadFromFile ==
  /\ text.stage = "saved"
  /\ text' = [ stage |-> "loaded",
               conversationThreads |->
                 FromEntries(text.threads, EvictConversations, NoThread),
               threadTimestamps |->
                 FromEntries(text.timestamps, EvictConversations, NoTimestamp),
               escalatedConversations |->
                 { text.escalated[i] : i \in 1..Len(text.escalated) } ]
  /\ UNCHANGED << relay, poll, send >>

SpecFile == InitEvict /\ [][SaveToFile \/ LoadFromFile]_vars

\* --------------------------------------- the webhook handler of server.js
\* server.js keeps conversationThreads and escalatedConversations in memory
\* only, and its handler reads and writes the thread map itself.
\* responseText.includes('connect you with my manager') ||
\* responseText.includes('escalate') || responseText.toLowerCase().includes('human')
serverNeedsEscalation(responseText) ==
  \E i \in 1..Len(responseText) :
     \/ Includes(responseText[i], "connect you with my manager")
     \/ Includes(responseText[i], "escalate")
     \/ Includes(ToLower(responseText[i]), "human")

ServerUserMessage(c) ==
  /\ HasFreeSlot
  /\ Set(FreeSlot, NewProc("webhook", "user_message", c, "sv_check"))
  /\ UNCHANGED << config, stores, disk, now, nextThread, submitted >>

\* conversationThreads.get(conversationId), up to the first call of getAssistantResponse
ServerLookup(pr) ==
  IF conversationThreads[pr.conv] = NoThread
  THEN [pr EXCEPT !.pc = "sv_create"]
  ELSE [pr EXCEPT !.pc = "sv_submit", !.thread = conversationThreads[pr.conv]]

\* the ownership query returns
ServerCheck(p, assigned) ==
  LET pr == procs[p] IN
  /\ pr.pc = "sv_check"
  /\ PossibleAgent(assigned)
  /\ IF isConversationWithHuman(pr.conv, assigned) THEN Set(p, Done(pr))
     ELSE IF BOT_AGENT_ID THEN Set(p, [pr EXCEPT !.pc = "sv_assign"])
     ELSE Set(p, ServerLookup(pr))
  /\ UNCHANGED << config, stores, disk, now, nextThread, submitted >>

\* assignConversationToBot returns, its PUT having succeeded or failed
ServerAssign(p) ==
  LET pr == procs[p] IN
  /\ pr.pc = "sv_assign"
  /\ Set(p, ServerLookup(pr))
  /\ UNCHANGED << config, stores, disk, now, nextThread, submitted >>

\* the handler's catch block only logs
ServerCatch(pr, error) == Done([pr EXCEPT !.error = error])

\* openai.beta.threads.create returns
ServerCreateThread(p, ok) ==
  LET pr == procs[p] IN
  /\ pr.pc = "sv_create"
  /\ IF ok
     THEN /\ nextThread < MaxThreads
          /\ nextThread' = nextThread + 1
          /\ Set(p, [pr EXCEPT !.pc = "sv_submit", !.thread = nextThread + 1])
     ELSE /\ Set(p, ServerCatch(pr, "assistant"))
          /\ UNCHANGED nextThread
  /\ UNCHANGED << config, stores, disk, now, submitted >>

\* openai.beta.threads.messages.create returns
ServerSubmitMessage(p, ok) ==
  LET pr == procs[p] IN
  /\ pr.pc = "sv_submit"
  /\ IF ok
     THEN /\ submitted' = [submitted EXCEPT ![pr.conv] = @ \cup {pr.thread}]
          /\ Set(p, [pr EXCEPT !.pc = "sv_run"])
     ELSE /\ Set(p, ServerCatch(pr, "assistant"))
          /\ UNCHANGED submitted
  /\ UNCHANGED << config, stores, disk, now, nextThread >>

\* the run ends with a reply: the handler records the thread and starts sending
ServerRunCompletes(p, reply) ==
  LET pr == procs[p] IN
  /\ pr.pc = "sv_run"
  /\ conversationThreads' = [conversationThreads EXCEPT ![pr.conv] = pr.thread]
  /\ Set(p, [pr EXCEPT !.pc = "sv_send", !.thread = pr.thread, !.response = reply,
                       !.needsEscalation = serverNeedsEscalation(reply)])
  /\ UNCHANGED << config, threadTimestamps, escalatedConversations, disk, now,
                  nextThread, submitted >>

\* the run fails: getAssistantResponse throws and the handler ends
ServerRunFails(p, failure) ==
  LET pr == procs[p] IN
  /\ pr.pc = "sv_run"
  /\ Set(p, ServerCatch(pr, "assistant"))
  /\ UNCHANGED << config, stores, disk, now, nextThread, submitted >>

\* sending the reply ends; with an escalation signal escalateToHuman starts
ServerSendReply(p, outcome) ==
  LET pr == procs[p] IN
  /\ pr.pc = "sv_send"
  /\ IF outcome # "sent"
     THEN /\ Set(p, Done(Threw(pr)))
          /\ UNCHANGED escalatedConversations
     ELSE IF ~pr.needsEscalation
     THEN /\ Set(p, Done(Sent(pr, pr.response)))
          /\ UNCHANGED escalatedConversations
     ELSE IF ~HUMAN_AGENT_ID
     THEN /\ Set(p, Done(Sent(pr, pr.response)))
          /\ escalatedConversations' = escalatedConversations \cup {pr.conv}
     ELSE /\ Set(p, [Sent(pr, pr.response) EXCEPT !.pc = "sv_esc_put"])
          /\ UNCHANGED escalatedConversations
  /\ UNCHANGED << config, conversationThreads, threadTimestamps, disk, now,
                  nextThread, submitted >>

\* the reassignment PUT of escalateToHuman returns
ServerEscalatePut(p, ok) ==
  LET pr == procs[p] IN
  /\ pr.pc = "sv_esc_put"
  /\ escalatedConversations' = escalatedConversations \cup {pr.conv}
  /\ IF ok THEN Set(p, [pr EXCEPT !.pc = "sv_esc_notice"]) ELSE Set(p, Done(pr))
  /\ UNCHANGED << config, conversationThreads, threadTimestamps, disk, now,
                  nextThread, submitted >>

\* sending the escalation notice ends
ServerEscalateNotice(p, outcome) ==
  LET pr == procs[p] IN
  /\ pr.pc = "sv_esc_notice"
  /\ IF outcome = "sent" THEN Set(p, Done(Sent(pr, EscalationNotice)))
     ELSE Set(p, Done(Threw(pr)))
  /\ UNCHANGED << config, stores, disk, now, nextThread, submitted >>

\* POST /reset-escalation/:conversationId
ServerReset(c) ==
  /\ escalatedConversations' = escalatedConversations \ {c}
  /\ conversationThreads' = [conversationThreads EXCEPT ![c] = NoThread]
  /\ submitted' = [submitted EXCEPT ![c] = {}]
  /\ UNCHANGED << config, threadTimestamps, disk, now, nextThread, procs >>

\* The assignment branch of server.js hands the conversation back: the event
\* names the bot agent and the conversation is escalated.  Without
\* BOT_AGENT_ID the comparison is with undefined, which an event without
\* assigned_agent_id equals.
ServerAssignedToBot(c, assignedAgentId) ==
  /\ c \in escalatedConversations
  /\ \/ BOT_AGENT_ID /\ assignedAgentId = "bot"
     \/ ~BOT_AGENT_ID /\ assignedAgentId = "none"

\* the escalated set when the assignment branch of server.js returns
ServerAfterAssignment(c, assignedAgentId) == escalatedConversations

\* conversation_update or conversation_assignment
ServerAssignmentEvent(c, assignedAgentId) ==
  /\ escalatedConversations' = ServerAfterAssignment(c, assignedAgentId)
  /\ IF ServerAssignedToBot(c, assignedAgentId)
     THEN /\ HasFreeSlot
          /\ Set(FreeSlot, NewProc("returnToBot", "assignment", c,
                                   IF BOT_AGENT_ID THEN "sv_rb_put" ELSE "sv_rb_enter"))
     ELSE UNCHANGED procs
  /\ UNCHANGED << config, conversationThreads, threadTimestamps, disk, now,
                  nextThread, submitted >>

\* returnToBot of server.js without BOT_AGENT_ID, up to its send
ServerReturnEnter(p) ==
  LET pr == procs[p] IN
  /\ pr.pc = "sv_rb_enter"
  /\ escalatedConversations' = escalatedConversations \ {pr.conv}
  /\ Set(p, [pr EXCEPT !.pc = "sv_rb_send"])
  /\ UNCHANGED << config, conversationThreads, threadTimestamps, disk, now,
                  nextThread, submitted >>

\* the reassignment PUT of returnToBot returns
ServerReturnPut(p, ok) ==
  LET pr == procs[p] IN
  /\ pr.pc = "sv_rb_put"
  /\ escalatedConversations' = escalatedConversations \ {pr.conv}
  /\ IF ok THEN Set(p, [pr EXCEPT !.pc = "sv_rb_send"]) ELSE Set(p, Done(pr))
  /\ UNCHANGED << config, conversationThreads, threadTimestamps, disk, now,
                  nextThread, submitted >>

\* sending the welcome-back message ends
ServerReturnSend(p, outcome) ==
  LET pr == procs[p] IN
  /\ pr.pc = "sv_rb_send"
  /\ IF outcome = "sent" THEN Set(p, Done(Sent(pr, WelcomeBackMessage)))
     ELSE Set(p, Done(Threw(pr)))
  /\ UNCHANGED << config, stores, disk, now, nextThread, submitted >>

\* the messages of a conversation arrive one after the other
NextServer ==
  \/ \E c \in Conversations : Quiet /\ ServerUserMessage(c)
  \/ \E c \in Conversations : Quiet /\ ServerReset(c)
  \/ \E c \in Conversations, a \in AgentIds :
        Quiet /\ PossibleAgent(a) /\ ServerAssignmentEvent(c, a)
  \/ \E p \in Slots : ServerReturnEnter(p)
  \/ \E p \in Slots, ok \in BOOLEAN : ServerReturnPut(p, ok)
  \/ \E p \in Slots, o \in SendOutcomes : ServerReturnSend(p, o)
  \/ \E p \in Slots, a \in OwnershipQueryResults : ServerCheck(p, a)
  \/ \E p \in Slots : ServerAssign(p)
  \/ \E p \in Slots, ok \in BOOLEAN : ServerCreateThread(p, ok)
  \/ \E p \in Slots, ok \in BOOLEAN : ServerSubmitMessage(p, ok)
  \/ \E p \in Slots, r \in AssistantReplies : ServerRunCompletes(p, r)
  \/ \E p \in Slots, f \in AssistantFailures : ServerRunFails(p, f)
  \/ \E p \in Slots, o \in SendOutcomes : ServerSendReply(p, o)
  \/ \E p \in Slots, ok \in BOOLEAN : ServerEscalatePut(p, ok)
  \/ \E p \in Slots, o \in SendOutcomes : ServerEscalateNotice(p, o)
  \/ \E p \in Slots : Retire(p)

SpecServer == Init /\ [][NextServer]_vars

\* ------------------------------- a reset while the handler of server.js runs
\* POST /reset-escalation/:conversationId, observed: the thread ids created
\* so far are those that exist when the reset happens
ServerResetObserved(c) ==
  /\ escalatedConversations' = escalatedConversations \ {c}
  /\ conversationThreads' = [conversationThreads EXCEPT ![c] = NoThread]
  /\ submitted' = [submitted EXCEPT ![c] = {}]
  /\ text' = [ stage |-> "reset", conversation |-> c, existing |-> nextThread ]
  /\ UNCHANGED << BOT_AGENT_ID, HUMAN_AGENT_ID, fileSystem, poll, send,
                  threadTimestamps, disk, now, nextThread, procs >>

NextServerReset ==
  \/ \E c \in Conversations : Quiet /\ ServerUserMessage(c)
  \/ \E c \in Conversations : ServerResetObserved(c)
  \/ \E p \in Slots, a \in OwnershipQueryResults : ServerCheck(p, a)
  \/ \E p \in Slots : ServerAssign(p)
  \/ \E p \in Slots, ok \in BOOLEAN : ServerCreateThread(p, ok)
  \/ \E p \in Slots, ok \in BOOLEAN : ServerSubmitMessage(p, ok)
  \/ \E p \in Slots, r \in AssistantReplies : ServerRunCompletes(p, r)
  \/ \E p \in Slots, f \in AssistantFailures : ServerRunFails(p, f)
  \/ \E p \in Slots, o \in SendOutcomes : ServerSendReply(p, o)
  \/ \E p \in Slots, ok \in BOOLEAN : ServerEscalatePut(p, ok)
  \/ \E p \in Slots, o \in SendOutcomes : ServerEscalateNotice(p, o)
  \/ \E p \in Slots : Retire(p)

SpecServerReset == Init /\ [][NextServerReset]_vars

\* ------------------------------------ explicit escalation marker (v4 server)
MARK == "ESCALATE_TO_HUMAN"
COLON == ":"
MarkerAlphabet == { MARK, COLON, SP, NL, "billing" }
\* what `.` of a regular expression matches: anything but a line break
NonNl == MarkerAlphabet \ { NL }

ConnectPlaceholder == <<"Let me connect you with one of our team members.">>
DefaultReason == <<"User request">>

\* assistantMessage.includes('ESCALATE_TO_HUMAN')
markerDetected(m) == \E i \in 1..Len(m) : m[i] = MARK

\* Where the group of /ESCALATE_TO_HUMAN:\s*(.+)/ starts when the colon is at
\* index j, 0 if the expression does not match there: \s* takes the whole run
\* of white space if a token follows it, and otherwise gives back white space
\* down to the last blank of the run.
GroupStart(m, j) ==
  LET w == PrefixLen(Drop(m, j), {SP, NL})
      blanks == { q \in (j + 1)..(j + w) : m[q] = SP }
  IN IF j + w + 1 <= Len(m) THEN j + w + 1
     ELSE IF blanks = {} THEN 0
     ELSE CHOOSE q \in blanks : \A r \in blanks : r <= q

\* the indices i at which /ESCALATE_TO_HUMAN:\s*(.+)/ matches
ReasonMatches(m) ==
  { i \in 1..(Len(m) - 1) : m[i] = MARK /\ m[i + 1] = COLON /\ GroupStart(m, i + 1) # 0 }

\* match ? match[1].trim() : 'User request'
escalationReasonOf(m) ==
  IF ReasonMatches(m) = {} THEN DefaultReason
  ELSE LET i == CHOOSE x \in ReasonMatches(m) : \A y \in ReasonMatches(m) : x <= y
           q == GroupStart(m, i + 1)
       IN Trim(Take(Drop(m, q - 1), PrefixLen(Drop(m, q - 1), NonNl)))

\* replace(/ESCALATE_TO_HUMAN:.+/g, '')
RECURSIVE StripMarker(_)
StripMarker(m) ==
  IF m = <<>> THEN <<>>
  ELSE IF Len(m) >= 3 /\ m[1] = MARK /\ m[2] = COLON /\ m[3] # NL
  THEN StripMarker(Drop(m, 2 + PrefixLen(Drop(m, 2), NonNl)))
  ELSE <<Head(m)>> \o StripMarker(Tail(m))

\* the message getAssistantResponse returns for the assistant's message m
cleanMessageOf(m) ==
  IF ~markerDetected(m) THEN m
  ELSE IF Trim(StripMarker(m)) = <<>> THEN ConnectPlaceholder
  ELSE Trim(StripMarker(m))

MaxTextLen == 3

RECURSIVE SeqsUpTo(_, _)
SeqsUpTo(S, n) ==
  IF n = 0 THEN { <<>> }
  ELSE LET shorter == SeqsUpTo(S, n - 1)
       IN shorter \cup { Append(x, t) : x \in shorter, t \in S }

\* the assistant's message is any text of the alphabet
InitMarker ==
  /\ InitRelay
  /\ poll = NoPoll
  /\ send = NoSend
  /\ \E m \in SeqsUpTo(MarkerAlphabet, MaxTextLen) \ { <<>> } :
       text = [ stage |-> "reply", assistantMessage |-> m ]

\* getAssistantResponse, from the assistant's message to the returned record
ExtractEscalation ==
  /\ text.stage = "reply"
  /\ text' = [ stage |-> "returned",
               assistantMessage |-> text.assistantMessage,
               needsEscalation |-> markerDetected(text.assistantMessage),
               response |-> cleanMessageOf(text.assistantMessage),
               escalationReason |-> IF markerDetected(text.assistantMessage)
                                    THEN escalationReasonOf(text.assistantMessage)
                                    ELSE <<>> ]
  /\ UNCHANGED << relay, poll, send >>

NextMarker == ExtractEscalation

SpecMarker == InitMarker /\ [][NextMarker]_vars

\* --------------------------------------------- the content of a relayed reply
\* what a reply of the assistant is made of
ReplyAlphabet == { "hello", SP, NL, CITE, BOLD }

InitClean ==
  /\ InitRelay
  /\ poll = NoPoll
  /\ send = NoSend
  /\ \E m \in SeqsUpTo(ReplyAlphabet, MaxTextLen) \ { <<>> } :
       text = [ stage |-> "response", response |-> m ]

\* processMessage, from the returned response to the message it sends
CleanAndSend ==
  /\ text.stage = "response"
  /\ text' = [ stage |-> "sent", response |-> text.response,
               message |-> cleanedResponse(text.response) ]
  /\ UNCHANGED << relay, poll, send >>

SpecClean == InitClean /\ [][CleanAndSend]_vars

\* ------------------------------------------ detection of an escalation
\* what the three servers tell apart in a reply of the assistant
DetectAlphabet == { MARK, "escalate", "Escalate", "Human Agent", "hello" }

InitDetect ==
  /\ InitRelay
  /\ poll = NoPoll
  /\ send = NoSend
  /\ \E m \in SeqsUpTo(DetectAlphabet, MaxTextLen) \ { <<>> },
        version \in {"v8", "server", "v4"} :
       text = [ stage |-> "reply", version |-> version, responseText |-> m ]

\* getAssistantResponse computes needsEscalation of the reply
Detect ==
  /\ text.stage = "reply"
  /\ text' = [ stage |-> "detected", version |-> text.version,
               responseText |-> text.responseText,
               needsEscalation |->
                 CASE text.version = "v8" -> needsEscalationOf(text.responseText)
                   [] text.version = "server" -> serverNeedsEscalation(text.responseText)
                   [] OTHER -> markerDetected(text.responseText) ]
  /\ UNCHANGED << relay, poll, send >>

SpecDetect == InitDetect /\ [][Detect]_vars

\* ------------------------------------------------- the webhook's ingress
\* One webhook event, from its arrival to the end of what it started.
WebhookActions == { "message_create", "other" }
WebhookConversationIds == { "" } \cup Conversations
WebhookTexts == { <<>>, <<SP>>, <<"hi">> }

InitIngress ==
  /\ InitRelay
  /\ poll = NoPoll
  /\ send = NoSend
  /\ \E action \in WebhookActions, conversationId \in WebhookConversationIds,
        messageContent \in WebhookTexts :
       text = [ stage |-> "received", action |-> action,
                conversationId |-> conversationId,
                messageContent |-> messageContent, acknowledged |-> FALSE ]

\* a handler that answers the provider when its work is done
Acknowledged_Deferred(event) == [event EXCEPT !.stage = "acknowledged"]

\* res.status(200).json({ success: true })
Acknowledged(event) == [event EXCEPT !.stage = "acknowledged", !.acknowledged = TRUE]

\* the handler's first statement
WebhookAcknowledge ==
  /\ text.stage = "received"
  /\ text' = Acknowledged(text)
  /\ UNCHANGED << relay, poll, send >>

\* !conversationId || !messageContent
MissingInput(event) == event.conversationId = "" \/ event.messageContent = <<>>

\* the user-message branch: it returns, or starts processMessage and returns
WebhookDispatch ==
  /\ text.stage = "acknowledged"
  /\ IF text.action # "message_create"
     THEN text' = [text EXCEPT !.stage = "ignored"] /\ UNCHANGED procs
     ELSE IF MissingInput(text)
     THEN text' = [text EXCEPT !.stage = "rejected"] /\ UNCHANGED procs
     ELSE /\ text' = [text EXCEPT !.stage = "accepted"]
          /\ Set(FreeSlot, NewProc("processMessage", "user_message",
                                   text.conversationId, "pm_check"))
  /\ UNCHANGED << BOT_AGENT_ID, HUMAN_AGENT_ID, fileSystem, poll, send, stores,
                  disk, now, nextThread, submitted >>

NextIngress ==
  \/ WebhookAcknowledge
  \/ WebhookDispatch
  \/ \E p \in Slots, a \in OwnershipQueryResults : ProcessCheck(p, a)
  \/ \E p \in Slots, ok \in BOOLEAN : CreateThread(p, ok)
  \/ \E p \in Slots, ok \in BOOLEAN : SubmitMessage(p, ok)
  \/ \E p \in Slots, r \in AssistantReplies : RunCompletes(p, r)
  \/ \E p \in Slots, f \in AssistantFailures : RunFails(p, f)
  \/ \E p \in Slots, o \in SendOutcomes : SendReply(p, o)
  \/ \E p \in Slots, o \in SendOutcomes : SendFallback(p, o)
  \/ \E p \in Slots, ok \in BOOLEAN : EscalatePut(p, ok)
  \/ \E p \in Slots, o \in SendOutcomes : EscalateNotice(p, o)

SpecIngress == InitIngress /\ [][NextIngress]_vars

\* ================================================================== claims
\* invocation p takes a step
Stepped(p) == procs'[p] # procs[p]
\* invocation p ends in this step
Ends(p) == InFlight(p) /\ procs'[p].pc = "done"
\* processMessage p ends in this step
EndsProcessMessage(p) == Ends(p) /\ procs[p].kind = "processMessage"

\* C1: processMessage on a conversation that is in the escalated set when
\* the ownership query returns ends at once, with no assistant call and no
\* message sent, whatever the query returned.
C1_SilentWhenHuman ==
  [][\A p \in Slots :
       (procs[p].pc = "pm_check" /\ procs[p].conv \in escalatedConversations /\ Stepped(p))
         => (procs'[p].pc = "done" /\ procs'[p].sent = <<>>)]_vars

\* C2: under every interleaving, no assistant reply is sent into a
\* conversation that is in the escalated set at the moment of sending.
C2_NoReplyWhileHuman ==
  [][\A p \in Slots :
       (procs[p].pc = "pm_send" /\ Len(procs'[p].sent) > Len(procs[p].sent))
         => procs[p].conv \notin escalatedConversations]_vars

\* C3: a processMessage whose assistant call failed ends with its
\* conversation in the escalated set.
C3_AssistantFailureEndsHuman ==
  [][\A p \in Slots :
       (EndsProcessMessage(p) /\ procs'[p].error = "assistant")
         => procs[p].conv \in escalatedConversations']_vars

\* C4: a processMessage whose reply carries an escalation signal and whose
\* sends all succeed ends with its conversation in the escalated set, having
\* sent the cleaned reply and then the escalation notice, and nothing else.
C4_EscalationSendsReplyAndNotice ==
  [][\A p \in Slots :
       (/\ EndsProcessMessage(p)
        /\ procs'[p].needsEscalation
        /\ procs'[p].error = "none"
        /\ ~procs'[p].failedSend)
         => /\ procs[p].conv \in escalatedConversations'
            /\ procs'[p].sent = << cleanedResponse(procs'[p].response), EscalationNotice >>]_vars

\* a processMessage that got a reply without escalation keyword ends, with all its sends accepted
EndsPlainReply(p) ==
  /\ EndsProcessMessage(p)
  /\ procs'[p].response # <<>>
  /\ ~procs'[p].needsEscalation
  /\ ~procs'[p].failedSend

C7_HandBackSendsWelcome ==
  [][\A p \in Slots :
       (/\ Ends(p)
        /\ procs[p].kind = "returnToBot"
        /\ procs[p].origin = "agent_message"
        /\ ~procs'[p].failedSend)
         => /\ procs[p].conv \notin escalatedConversations'
            /\ procs'[p].sent = << WelcomeBackMessage >>]_vars

\* C8: an agent message changes no store and starts nothing when the
\* conversation is not escalated, when the text has no resolution keyword,
\* or when the agent is the bot itself.
C8_OperatorMessageNoOp ==
  [][\A c \in Conversations, a \in AgentIds, t \in OperatorTexts :
       (/\ PossibleAgent(a)
        /\ AgentMessage(c, a, t)
        /\ \/ c \notin escalatedConversations
           \/ ~hasResolutionKeyword(t)
           \/ (BOT_AGENT_ID /\ a = "bot"))
         => UNCHANGED << stores, disk, submitted, procs >>]_vars

\* C8 witness: an escalated conversation, a configured bot agent and a free
\* slot: here the agent and the text of an agent message decide whether a
\* hand-back starts.
C8_Witness ==
  \E c \in Conversations :
     /\ c \in escalatedConversations
     /\ BOT_AGENT_ID
     /\ HasFreeSlot

\* C10: a thread is created for a conversation only while the conversation
\* has no thread recorded, so that one thread is created between two resets
\* or evictions.
C10_OneThreadPerConversation ==
  [][\A p \in Slots :
       (procs[p].pc = "pm_create" /\ Stepped(p) /\ nextThread' > nextThread)
         => conversationThreads[procs[p].conv] = NoThread]_vars

\* the text that follows the first marker on its line, the colon apart
FollowsMarker(m) ==
  LET i == CHOOSE x \in 1..Len(m) : m[x] = MARK /\ \A y \in 1..(x - 1) : m[y] # MARK
      j == IF i < Len(m) /\ m[i + 1] = COLON THEN i + 1 ELSE i
  IN Trim(Take(Drop(m, j), PrefixLen(Drop(m, j), NonNl)))

\* C5: when the marker is detected in the assistant's message, the message
\* returned for the user does not contain the marker, and the text that
\* follows the marker on its line is the escalation reason.
C5_MarkerStripped ==
  (text.stage = "returned" /\ text.needsEscalation)
    => /\ ~markerDetected(text.response)
       /\ text.escalationReason =
            IF FollowsMarker(text.assistantMessage) = <<>> THEN DefaultReason
            ELSE FollowsMarker(text.assistantMessage)

\* C9: between resets and evictions, every message of a conversation that
\* reaches the assistant is submitted to one and the same session, also after
\* an invocation in which the assistant failed.
C9_SameSession == \A c \in Conversations : Cardinality(submitted[c]) <= 1

\* C11: every invocation of processMessage, escalateToHuman and returnToBot
\* ends without an exception reaching its caller, whatever the assistant,
\* the messaging platform and the threads file do.
C11_NothingEscapes ==
  [][\A p \in Slots : Ends(p) => ~procs'[p].escaped]_vars

\* C11 witness: a processMessage has ended after the assistant failed, the
\* apology could not be sent and the threads file could not be written.
C11_Witness ==
  \E p \in Slots :
     /\ procs[p].pc = "done"
     /\ procs[p].kind = "processMessage"
     /\ procs[p].error = "assistant"
     /\ procs[p].failedSend
     /\ ~procs[p].escaped
     /\ fileSystem = "failing"
     /\ disk # Snapshot(conversationThreads, threadTimestamps, escalatedConversations)

\* C12: an invocation for a user message that passed the ownership check
\* (the conversation is the bot's), all of whose sends were accepted, ends
\* having sent at least one message to the user.
C12_NeverSilent ==
  [][\A p \in Slots :
       (/\ Ends(p)
        /\ procs[p].kind = "webhook"
        /\ procs[p].pc # "sv_check"
        /\ ~procs'[p].failedSend)
         => procs'[p].sent # <<>>]_vars

\* C13: an invocation whose assistant run exceeded the poll ceiling ends
\* having sent the apology, once, and nothing else.
C13_TimeoutSendsApology ==
  [][\A p \in Slots :
       (ServerRunFails(p, "timeout") /\ Ends(p))
         => procs'[p].sent = << ApologyMessage >>]_vars

\* C12 and C13 in the v8 server: a processMessage that passed the ownership
\* check and whose sends were accepted ends having sent a message, and after a
\* failed assistant call that message is the apology, before any notice.
ProcessMessageNeverSilent ==
  [][\A p \in Slots :
       (EndsProcessMessage(p) /\ procs[p].pc # "pm_check" /\ ~procs'[p].failedSend)
         => /\ procs'[p].sent # <<>>
            /\ procs'[p].error = "assistant" => Head(procs'[p].sent) = ApologyMessage]_vars

\* C14: when the reassignment call of escalateToHuman fails, the conversation
\* is in the escalated set when escalateToHuman returns.
C14_FailedReassignStillHuman ==
  [][\A p \in Slots :
       (procs[p].pc = "esc_put" /\ Stepped(p) /\ procs'[p].pc = "done")
         => procs[p].conv \in escalatedConversations']_vars

\* C14 witness: with a human agent configured, an escalation ended without
\* notice and without a failed send, so its reassignment failed; the
\* conversation is escalated.
C14_Witness ==
  \E p \in Slots :
     /\ HUMAN_AGENT_ID
     /\ procs[p].pc = "done"
     /\ procs[p].needsEscalation
     /\ ~procs[p].failedSend
     /\ Len(procs[p].sent) = 1
     /\ procs[p].conv \in escalatedConversations

CountSent(pr, fixed) ==
  Len(SelectSeq(pr.sent,
                LAMBDA m : IF fixed = <<>> THEN m \notin { EscalationNotice, ApologyMessage }
                           ELSE m = fixed))

NonBotAgent(assignedAgentId) ==
  assignedAgentId # "none" /\ ~(BOT_AGENT_ID /\ assignedAgentId = "bot")

\* C17: when the handler of an ownership-change event returns, a
\* conversation the event reports as assigned to a non-bot agent is in the
\* escalated set, whoever owned it before.
C17_AssignmentSetsOwner ==
  \A c \in Conversations, a \in AgentIds :
     (PossibleAgent(a) /\ NonBotAgent(a)) => c \in ServerAfterAssignment(c, a)

\* C17 in the v8 server: an assignment to a non-bot agent puts the
\* conversation into the escalated set, an assignment to the bot takes it out
AssignmentMirrorsOwner ==
  [][\A c \in Conversations, a \in AgentIds :
       (PossibleAgent(a) /\ AssignmentEvent(c, a))
         => /\ NonBotAgent(a) => c \in escalatedConversations'
            /\ (BOT_AGENT_ID /\ a = "bot") => c \notin escalatedConversations']_vars

\* C18: an ownership-change event that reports the bot as the agent of a
\* conversation the registry already gives to the bot, as the second
\* delivery of such an event does, changes no store and starts nothing.
C18_AssignmentIdempotent ==
  [][\A c \in Conversations :
       (BOT_AGENT_ID /\ c \notin escalatedConversations /\ AssignmentEvent(c, "bot"))
         => UNCHANGED << stores, procs >>]_vars

\* C19: the eviction of stale sessions is no hand-back: a conversation that
\* is in the escalated set when cleanupOldThreads runs is in it when
\* cleanupOldThreads returns.
C19_EvictionKeepsEscalated == escalatedConversations \subseteq escalatedAfterCleanup

\* C20: when the reset endpoint returns, the conversation is outside the
\* escalated set and has neither thread nor timestamp; and a processMessage
\* that finds no thread for its conversation creates one before it submits.
C20_ResetClearsOwnerAndSession ==
  [][/\ \A c \in Conversations :
          ResetEscalation(c)
            => /\ c \notin escalatedConversations'
               /\ conversationThreads'[c] = NoThread
               /\ threadTimestamps'[c] = NoTimestamp
     /\ \A p \in Slots :
          (/\ procs[p].pc = "pm_check"
           /\ Stepped(p)
           /\ conversationThreads[procs[p].conv] = NoThread
           /\ procs'[p].pc # "done")
            => procs'[p].pc = "pm_create"]_vars

\* C20 witness: before anything could go stale, the conversation is the
\* bot's and its messages go to the second thread created, the first one
\* having been dropped by a reset.
C20_Witness ==
  \E c \in Conversations :
     /\ now = 0
     /\ c \notin escalatedConversations
     /\ conversationThreads[c] = 2
     /\ submitted[c] = {2}

\* C21: no step of an escalation or of a hand-back, and no operator message,
\* ownership-change event or return request, changes the thread or the
\* timestamp of a conversation; so all messages of a conversation handled one
\* after the other go to one thread, across escalations and hand-backs.
C21_HandBackKeepsSession ==
  [][/\ \A p \in Slots :
          (/\ procs[p].pc \in {"pm_send", "pm_fallback", "esc_put", "esc_notice", "rb_put", "rb_send"}
           /\ Stepped(p))
            => UNCHANGED << conversationThreads, threadTimestamps >>
     /\ \A c \in Conversations :
          (\/ ManualReturn(c)
           \/ \E a \in AgentIds : AssignmentEvent(c, a)
           \/ \E a \in AgentIds, t \in OperatorTexts : AgentMessage(c, a, t))
            => UNCHANGED << conversationThreads, threadTimestamps >>
     /\ \A c \in Conversations : Cardinality(submitted'[c]) <= 1]_vars

\* C21 witness: an operator's resolution message handed the conversation
\* back, and the user message that follows is about to be submitted to the
\* thread the conversation's earlier messages went to.
C21_Witness ==
  \E p, q \in Slots :
     /\ procs[p].kind = "returnToBot"
     /\ procs[p].origin = "agent_message"
     /\ procs[p].pc = "done"
     /\ procs[p].sent = << WelcomeBackMessage >>
     /\ procs[q].kind = "processMessage"
     /\ procs[q].conv = procs[p].conv
     /\ procs[q].pc = "pm_submit"
     /\ procs[q].thread = 1
     /\ submitted[procs[q].conv] = {1}

\* C22: cleanupOldThreads removes the thread and the timestamp of exactly the
\* conversations whose timestamp is before now minus the retention window,
\* and leaves those of every other conversation as they were; a thread
\* created afterwards has an id no evicted thread had.
C22_EvictsExactlyStale ==
  [][/\ cleanupOldThreads
          => \A c \in DOMAIN threadTimestamps :
                IF threadTimestamps[c] # NoTimestamp /\ threadTimestamps[c] < now - 7
                THEN conversationThreads'[c] = NoThread /\ threadTimestamps'[c] = NoTimestamp
                ELSE /\ conversationThreads'[c] = conversationThreads[c]
                     /\ threadTimestamps'[c] = threadTimestamps[c]
     /\ \A p \in Slots :
          (procs[p].pc = "pm_create" /\ nextThread' > nextThread)
            => /\ conversationThreads'[procs[p].conv] = nextThread'
               /\ \A c \in DOMAIN submitted : \A t \in submitted[c] : t < nextThread']_vars

\* C22 witness: of two conversations with threads, the stale one was evicted
\* and the other, whose age is exactly the retention window, was kept.
C22_Witness ==
  /\ conversationThreads = [c \in EvictConversations |-> IF c = "c1" THEN NoThread ELSE 2]
  /\ threadTimestamps = [c \in EvictConversations |-> IF c = "c1" THEN NoTimestamp ELSE now - 7]
  /\ disk.timestamps = threadTimestamps
  /\ disk.threads = conversationThreads
  /\ nextThread = 2

\* what is left of a poll loop: twice the polls it may still count, one more
\* before a wait
PollsLeft(pl) ==
  2 * (maxAttempts - pl.attempts) + (IF pl.pc = "wait" THEN 1 ELSE 0)
    + (IF pl.pc = "first" THEN 2 ELSE 0)

\* C23: the poll loop ends: each of its steps ends it or brings it nearer to
\* the ceiling, it waits at most 60 times, and it ends with one outcome.
C23_PollLoopTerminates ==
  [][/\ poll'.waits <= maxAttempts
     /\ poll'.attempts <= maxAttempts
     /\ IF poll'.pc = "ended"
        THEN /\ poll.pc # "ended"
             /\ poll'.outcome \in {"reply", "failed", "expired", "timeout", "api_error"}
             /\ poll'.outcome = "reply" <=> poll'.runStatus = "completed"
        ELSE /\ poll'.outcome = "none"
             /\ PollsLeft(poll') < PollsLeft(poll)
             /\ PollsLeft(poll') >= 0]_vars

\* C23 witness: the loop ended by timeout after 60 waits.
C23_Witness ==
  /\ poll.pc = "ended"
  /\ poll.outcome = "timeout"
  /\ poll.waits = maxAttempts
  /\ poll.attempts = maxAttempts

\* C24: the call ends only with the reply, with a failure the backend
\* reported, or at the attempt ceiling: an error of one poll does not end it.
C24_PollErrorIsRetried ==
  poll.pc = "ended" => poll.outcome \in {"reply", "failed", "expired", "timeout"}

\* a call of sendFreshchatMessage stops at its first success, and returns
\* exactly when its last attempt succeeded
StopsAtSuccess ==
  /\ \A i \in 1..(Len(send.results) - 1) : send.results[i] # "success"
  /\ send.pc = "returned" <=> (send.results # <<>> /\ send.results[Len(send.results)] = "success")

\* C25 (as claimed): a call makes at most 3 attempts, makes a further one
\* only after a network error or a 5xx response, and stops at the first
\* success.
C25_ThreeAttemptsRetryOnTransient ==
  send.pc # "none"
    => /\ Len(send.results) <= 3
       /\ \A i \in 1..(Len(send.results) - 1) :
             send.results[i] \in {"network_error", "status_5xx"}
       /\ StopsAtSuccess

\* C25 (amended): the v8 server makes at most 3 attempts, a further one only
\* after a network error or a 5xx response, and fails at once on another
\* error response; the v4 server makes one attempt per payload shape, at most
\* 5, and goes on after every failure; both stop at the first success.
C25_AttemptsByVersion ==
  send.pc # "none"
    => /\ StopsAtSuccess
       /\ send.version = "v8"
            => /\ Len(send.results) <= 3
               /\ \A i \in 1..(Len(send.results) - 1) :
                     send.results[i] \in {"network_error", "status_5xx"}
               /\ (send.results # <<>> /\ send.results[Len(send.results)] = "status_4xx")
                     => send.pc = "thrown"
       /\ send.version = "v4"
            => /\ Len(send.results) <= 5
               /\ send.pc = "thrown" => Len(send.results) = PayloadShapes(send.channelId)

\* C25 witness: the v8 server delivered at its third attempt, after a
\* network error and a 5xx response.
C25_Witness ==
  /\ send.pc = "returned"
  /\ send.version = "v8"
  /\ send.results = << "network_error", "status_5xx", "success" >>

\* C26: no message with empty text is sent: the message that relays a
\* non-empty reply of the assistant is never empty.
C26_NoEmptyMessage ==
  text.stage = "sent" => text.message # <<>>

\* the reply contains a keyword of the list, in any letter case
HasKeywordAnyCase(responseText) ==
  \E i \in 1..Len(responseText), k \in escalationKeywords :
     Includes(ToLower(responseText[i]), k)

\* C27: escalation is detected exactly when the reply contains the marker
\* or a keyword of the list in any letter case.
C27_DetectedIffMarkerOrKeyword ==
  text.stage = "detected"
    => (text.needsEscalation
          <=> (markerDetected(text.responseText) \/ HasKeywordAnyCase(text.responseText)))

\* the event started nothing: no invocation, and the stores, the file and
\* the assistant's threads are as they were
NothingStarted ==
  /\ \A p \in Slots : procs[p] = IdleProc
  /\ conversationThreads = [c \in Conversations |-> NoThread]
  /\ threadTimestamps = [c \in Conversations |-> NoTimestamp]
  /\ escalatedConversations = {}
  /\ nextThread = 0
  /\ submitted = [c \in Conversations |-> {}]

\* C28: a user message with an empty conversation id, or with a text that
\* is empty after trimming, starts nothing.
C28_BlankInputRejected ==
  (text.stage # "none"
     /\ (text.conversationId = "" \/ Trim(text.messageContent) = <<>>))
    => NothingStarted

\* C29: the acknowledgement is sent before anything the event starts, and
\* it has been sent whatever the event led to.
C29_AcknowledgedFirst ==
  /\ text.stage \in {"acknowledged", "ignored", "rejected", "accepted"} => text.acknowledged
  /\ ~NothingStarted => text.acknowledged

\* C29 witness: the event was acknowledged, and its processing failed and
\* ended with the apology.
C29_Witness ==
  /\ text.stage = "accepted"
  /\ text.acknowledged
  /\ \E p \in Slots : /\ procs[p].pc = "done"
                      /\ procs[p].error # "none"
                      /\ procs[p].sent = << ApologyMessage >>

\* C30: in an escalation the registry is set to HUMAN before any external
\* call of the transition: while the reassignment call or the notice is
\* under way, the conversation is in the registry.
C30_RegistryBeforeExternalCalls ==
  \A p \in Slots :
     procs[p].pc \in {"esc_put", "esc_notice"} => procs[p].conv \in escalatedConversations

\* C31: a message of an agent or of the bot itself never causes an
\* assistant call or a reply of the assistant: what it starts is at most a
\* hand-back, which uses no thread and sends only the fixed welcome.
C31_AgentMessageNeverAnswered ==
  \A p \in Slots :
     /\ procs[p].kind = "processMessage" => procs[p].origin = "user_message"
     /\ procs[p].origin = "agent_message"
          => /\ procs[p].kind = "returnToBot"
             /\ procs[p].thread = NoThread
             /\ procs[p].response = <<>>
             /\ \A i \in 1..Len(procs[p].sent) : procs[p].sent[i] = WelcomeBackMessage

\* C31 witness: the message of an agent started a hand-back, which ended
\* with the welcome and left the assistant's threads alone.
C31_Witness ==
  \E p \in Slots :
     /\ procs[p].origin = "agent_message"
     /\ procs[p].pc = "done"
     /\ procs[p].sent = << WelcomeBackMessage >>
     /\ procs[p].conv \notin escalatedConversations

\* the escalation notices sent to conversation c by the invocations so far
NoticesSent(c) ==
  LET Count[n \in 0..MaxInFlight] ==
        IF n = 0 THEN 0
        ELSE Count[n - 1]
               + (IF procs[n].conv = c THEN CountSent(procs[n], EscalationNotice) ELSE 0)
  IN Count[MaxInFlight]

\* C32: with no hand-back between them, the user messages of a conversation
\* get at most one escalation notice, concurrent escalations included.
C32_OneNoticePerEscalation ==
  \A c \in Conversations : NoticesSent(c) <= 1

\* C33: after a reset the thread map does not give the conversation a
\* thread that existed when the reset happened, whatever an invocation that
\* was in flight at the reset does afterwards.
C33_ResetNotUndone ==
  text.stage = "reset"
    => \/ conversationThreads[text.conversation] = NoThread
       \/ conversationThreads[text.conversation] > text.existing

\* C34: a run found completed by any poll, the last allowed one included,
\* gives the reply and not a timeout.
C34_CompletedGivesReply ==
  (poll.pc = "ended" /\ poll.runStatus = "completed") => poll.outcome = "reply"

\* C35: one call of sendFreshchatMessage delivers at most one copy of the
\* message.
C35_AtMostOneCopy ==
  send.pc # "none" => send.delivered <= 1

\* C36: each invocation on a shared thread relays the assistant message of
\* its own run.
C36_RelaysOwnReply ==
  text.stage = "thread"
    => \A i \in Slots : text.run[i].pc = "returned" => text.run[i].relayed = i

\* C37: whenever no invocation is in flight, the file holds the thread map,
\* the timestamp map and the escalated set as they are in memory.
C37_SnapshotEqualsStoresWhenQuiet ==
  Quiet => disk = Snapshot(conversationThreads, threadTimestamps, escalatedConversations)

\* C38: the thread map and the timestamp map have the same keys: a
\* conversation has a thread exactly when it has a timestamp.
C38_SameKeys ==
  \A c \in DOMAIN conversationThreads :
     conversationThreads[c] = NoThread <=> threadTimestamps[c] = NoTimestamp

\* C38 witness: a conversation has its second thread and the time of its
\* use, in memory and in the file, and nothing is in flight.
C38_Witness ==
  \E c \in Conversations :
     /\ Quiet
     /\ conversationThreads[c] = 2
     /\ threadTimestamps[c] = now
     /\ now > 0
     /\ disk.threads[c] = 2

====
